---- MODULE Spec2Model ----
(***************************************************************************)
(* A model of the streaming MIME message encoder of go-simple-mail         *)
(* (src/message.go, second package body, lines 259-746): the message       *)
(* assembler newMessage, the CID rewriter, the boundary manager, the       *)
(* base64 line wrapper and the resumable reader message.Read.              *)
(*                                                                         *)
(* Bytes are symbolic: every byte of the stream is a tuple whose first     *)
(* element is a tag.  A base64 character is the pair (group of input       *)
(* bytes, index in the quantum), so the encoding is injective and keeps    *)
(* the 3-to-4 expansion, the padding on Close and the bytes carried over   *)
(* between Write calls.                                                    *)
(***************************************************************************)
EXTENDS Integers, Sequences, FiniteSets, TLC

VARIABLES
    email,      \* the Email description handed to newMessage
    msg,        \* the message struct (src/message.go:275-290)
    rd,         \* read positions of the files' byte sources (file.reader)
    out,        \* every byte Read has returned so far, in order
    ret,        \* the last Read call: [lenP, n, err]
    nread,      \* the sum of the counts Read has returned
    eofBefore,  \* some Read call before the last one returned io.EOF
    lw,         \* a base64LineWrap under test: [writer, numLineChars]
    wPos,       \* how many characters of the input it has been given
    wCalls,     \* its Write calls so far, counted up to 2
    cText,      \* CID rewriter under test: the text last returned
    cOrig,      \* ... the text replaceCIDs was last applied to
    cPrev,      \* ... [text, cids] before the last application
    cOp,        \* ... the last operation: [op, name, cid]
    call        \* the last direct call of AddFileHeaders or ReadFile:
                \* [op, index, inline, err, before, calls]

vars ==
    <<email, msg, rd, out, ret, nread, eofBefore, lw, wPos, wCalls, cText, cOrig, cPrev, cOp,
      call>>

readerVars == <<email, rd, out, ret, nread, eofBefore, call>>
wrapVars == <<lw, wPos, wCalls>>
cidVars == <<cText, cOrig, cPrev, cOp>>

----------------------------------------------------------------------------
(* Bounds of the model *)

MaxParts == 2        \* body parts of an email
MaxFiles == 2        \* files per list (attachments, inlines)
MaxFileSize == 4     \* bytes of the largest file
SmallBuf == 1        \* the smallest caller buffer
MidBuf == 3          \* a caller buffer that takes one small file and part of the next
BigBuf == 250        \* a caller buffer that holds a whole message
MaxTime == 2         \* clock readings seen by getCID
MaxCids == 3         \* entries of a CID table under test
MaxWrapInput == 1203 \* characters given to a base64LineWrap under test
MaxCalls == 2        \* direct calls of AddFileHeaders and ReadFile on one message

----------------------------------------------------------------------------
(* Sequences *)

Min(a, b) == IF a < b THEN a ELSE b

Take(s, n) == SubSeq(s, 1, Min(n, Len(s)))

Drop(s, n) == SubSeq(s, Min(n, Len(s)) + 1, Len(s))

----------------------------------------------------------------------------
(* base64LineWrap (src/message.go:445-475) *)

maxLineChars == 400

CRLF == << <<"CR">>, <<"LF">> >>

\* The loop of Write with the accumulation of numLineChars dropped.
RECURSIVE WrapLoopNoCarry(_, _, _)
WrapLoopNoCarry(p, numLineChars, writer) ==
    IF Len(p) + numLineChars > maxLineChars
    THEN WrapLoopNoCarry(Drop(p, maxLineChars - numLineChars), 0,
                         writer \o Take(p, maxLineChars - numLineChars) \o CRLF)
    ELSE [writer |-> writer \o p, numLineChars |-> Len(p)]

\* for len(p)+e.numLineChars > maxLineChars { ... }; write what is left
RECURSIVE WrapLoop(_, _, _)
WrapLoop(p, numLineChars, writer) ==
    IF Len(p) + numLineChars > maxLineChars
    THEN WrapLoop(Drop(p, maxLineChars - numLineChars), 0,
                  writer \o Take(p, maxLineChars - numLineChars) \o CRLF)
    ELSE [writer |-> writer \o p, numLineChars |-> numLineChars + Len(p)]

\* (e *base64LineWrap) Write(p): e is [writer, numLineChars]
LineWrapWrite(e, p) == WrapLoop(p, e.numLineChars, e.writer)

----------------------------------------------------------------------------
(* encoding/base64's streaming encoder, as the message uses it: it keeps   *)
(* up to two input bytes between Write calls and writes each quantum of 4  *)
(* characters to the base64LineWrap.  e is [buf, numLineChars, writer].    *)

\* The 4 characters of one group of 1..3 input bytes (padded when short).
Quantum(g) == [j \in 1..4 |-> <<"b64", j, g>>]

RECURSIVE EncodeGroups(_)
EncodeGroups(p) ==
    IF p = <<>> THEN <<>> ELSE Quantum(Take(p, 3)) \o EncodeGroups(Drop(p, 3))

\* e.w.Write(chars): the encoder writes to its base64LineWrap
EncWrap(e, chars) ==
    LineWrapWrite([writer |-> e.writer, numLineChars |-> e.numLineChars], chars)
        @@ [buf |-> e.buf]

\* the large interior chunks, then the trailing fringe
RECURSIVE EncInterior(_, _)
EncInterior(e, p) ==
    IF Len(p) >= 3
    THEN LET nn == Min(768, Len(p) - (Len(p) % 3))
         IN  EncInterior(EncWrap(e, EncodeGroups(Take(p, nn))), Drop(p, nn))
    ELSE [e EXCEPT !.buf = p]

\* msg.encoder.Write(binBuff)
EncoderWrite(e, p) ==
    IF Len(e.buf) > 0
    THEN LET lead == Min(Len(p), 3 - Len(e.buf))
             buf1 == e.buf \o Take(p, lead)
         IN  IF Len(buf1) < 3
             THEN [e EXCEPT !.buf = buf1]
             ELSE EncInterior([EncWrap(e, Quantum(buf1)) EXCEPT !.buf = <<>>],
                              Drop(p, lead))
    ELSE EncInterior(e, p)

\* msg.encoder.Close(): flush what is left, padded
EncoderClose(e) ==
    IF Len(e.buf) > 0
    THEN [EncWrap(e, Quantum(e.buf)) EXCEPT !.buf = <<>>]
    ELSE e

NewEncoder == [buf |-> <<>>, numLineChars |-> 0, writer |-> <<>>]

\* base64Encode (src/message.go:418-430)
base64Encode(text) == EncoderClose(EncoderWrite(NewEncoder, text)).writer

\* qpEncode (src/message.go:433-443): byte by byte, injective
qpEncode(text) == [i \in DOMAIN text |-> <<"qp", text[i]>>]

----------------------------------------------------------------------------
(* bytes.Buffer.Read and the files' byte sources *)

\* (b *bytes.Buffer) Read(p) with len(p) = k: an empty buffer answers io.EOF,
\* unless len(p) is 0.
BufferRead(buf, k) ==
    IF buf = <<>>
    THEN [n |-> 0, data |-> <<>>, rest |-> <<>>, err |-> IF k = 0 THEN "nil" ELSE "EOF"]
    ELSE [n |-> Min(k, Len(buf)), data |-> Take(buf, k), rest |-> Drop(buf, k),
          err |-> "nil"]

\* files[index].reader.Read(p) with len(p) = k on an in-memory source read up
\* to pos: io.EOF once every byte has been returned.
ReaderRead(data, pos, k) ==
    IF pos >= Len(data)
    THEN [n |-> 0, data |-> <<>>, pos |-> pos, err |-> "EOF"]
    ELSE [n |-> Min(k, Len(data) - pos), data |-> SubSeq(data, pos + 1, Min(pos + k, Len(data))),
          pos |-> Min(pos + k, Len(data)), err |-> "nil"]

\* The same on a source that reports io.EOF together with its last bytes, as
\* io.Reader allows.
EagerRead(data, pos, k) ==
    IF pos >= Len(data)
    THEN [n |-> 0, data |-> <<>>, pos |-> pos, err |-> "EOF"]
    ELSE [n |-> Min(k, Len(data) - pos), data |-> SubSeq(data, pos + 1, Min(pos + k, Len(data))),
          pos |-> Min(pos + k, Len(data)),
          err |-> IF pos + k >= Len(data) /\ k > 0 THEN "EOF" ELSE "nil"]

ReadError == "read error"

\* The same on a source that fails where its data ends (a stream cut short):
\* the error is not io.EOF, and it is returned again on every later call.
FailingRead(data, pos, k) ==
    IF pos >= Len(data)
    THEN [n |-> 0, data |-> <<>>, pos |-> pos, err |-> ReadError]
    ELSE ReaderRead(data, pos, k)

\* files[index].reader.Read(p) with len(p) = k, f the file, read up to pos
SourceRead(f, pos, k) ==
    CASE f.source = "eager" -> EagerRead(f.data, pos, k)
      [] f.source = "failing" -> FailingRead(f.data, pos, k)
      [] OTHER -> ReaderRead(f.data, pos, k)

----------------------------------------------------------------------------
(* Text of body parts and the CID rewriter (src/message.go:358-387) *)

Ch(c) == <<"ch", c>>
SrcEq == Ch("src=\"")       \* src="
HrefEq == Ch("href=\"")     \* href="
CidColon == Ch("cid:")      \* cid:
Quote == Ch("\"")           \* "

NoCids == [k \in {} |-> <<>>]

\* time.Now().Format(dateFormat) + "." + strconv.Itoa(len(msg.cids)+1) + "@mail.0"
NewCID(t, n) == <<"cid", t, n>>

\* getCID without the lookup: a fresh ID on every call.
getCIDAlwaysNew(m, text, t) ==
    LET cid == NewCID(t, Cardinality(DOMAIN m.cids) + 1)
    IN  [m |-> [m EXCEPT !.cids = [k \in DOMAIN m.cids \cup {text} |->
                                      IF k = text THEN cid ELSE m.cids[k]]],
         cid |-> cid]

\* getCID without msg.cids[text] = cid: the new ID is returned, not saved.
getCIDNoSave(m, text, t) ==
    IF text \in DOMAIN m.cids
    THEN [m |-> m, cid |-> m.cids[text]]
    ELSE [m |-> m, cid |-> NewCID(t, Cardinality(DOMAIN m.cids) + 1)]

\* (msg *message) getCID(text)
getCID(m, text, t) ==
    IF text \in DOMAIN m.cids
    THEN [m |-> m, cid |-> m.cids[text]]
    ELSE LET cid == NewCID(t, Cardinality(DOMAIN m.cids) + 1)
         IN  [m |-> [m EXCEPT !.cids = [k \in DOMAIN m.cids \cup {text} |->
                                           IF k = text THEN cid ELSE m.cids[k]]],
              cid |-> cid]

\* The first index >= i of a quote in text, or 0.
RECURSIVE QuoteFrom(_, _)
QuoteFrom(text, i) ==
    IF i > Len(text) THEN 0
    ELSE IF text[i] = Quote THEN i ELSE QuoteFrom(text, i + 1)

\* re.FindAllStringSubmatch(text, -1) for (src|href)="cid:(.*?)": the names
\* (group 2) of the leftmost non-overlapping matches, from index i on.
RECURSIVE FindAllCids(_, _)
FindAllCids(text, i) ==
    IF i + 2 > Len(text) THEN <<>>
    ELSE IF (text[i] = SrcEq \/ text[i] = HrefEq) /\ text[i + 1] = CidColon
              /\ QuoteFrom(text, i + 2) # 0
         THEN LET j == QuoteFrom(text, i + 2)
              IN  <<SubSeq(text, i + 2, j - 1)>> \o FindAllCids(text, j + 1)
         ELSE FindAllCids(text, i + 1)

\* strings.Replace(text, old, new, -1), old not empty
RECURSIVE Replace(_, _, _)
Replace(text, old, new) ==
    IF Len(text) < Len(old) THEN text
    ELSE IF Take(text, Len(old)) = old
         THEN new \o Replace(Drop(text, Len(old)), old, new)
         ELSE <<Head(text)>> \o Replace(Tail(text), old, new)

\* the loop of replaceCIDs over the matches
RECURSIVE ReplaceMatches(_, _, _, _)
ReplaceMatches(m, text, matches, t) ==
    IF matches = <<>> THEN [m |-> m, text |-> text]
    ELSE LET g == getCID(m, Head(matches), t)
         IN  ReplaceMatches(g.m,
                            Replace(text, <<CidColon>> \o Head(matches), <<CidColon, g.cid>>),
                            Tail(matches), t)

\* (msg *message) replaceCIDs(text)
replaceCIDs(m, text, t) == ReplaceMatches(m, text, FindAllCids(text, 1), t)

----------------------------------------------------------------------------
(* The Email description.  hasMixedPart, hasRelatedPart and                *)
(* hasAlternativePart are methods of Email, whose source is not part of    *)
(* src/: they follow sections 4.2 and 4.4 of the specification.            *)

\* "mixed" if attachments exist
hasMixedPart(e) == Len(e.attachments) > 0

\* "related" if inline files exist: the layer that holds the bodies and the
\* inline files (section 4.2).  Section 4.4 also names "multiple
\* alternative-capable bodies"; a related layer without inline files is not
\* modelled.
hasRelatedPart(e) == Len(e.inlines) > 0

\* "alternative" if there is more than one body part
hasAlternativePart(e) == Len(e.parts) > 1

\* email.headers as getHeaders serializes them (From, To, Subject, Date)
TopHeaders == << <<"header", "top">> >>

----------------------------------------------------------------------------
(* Boundary manager and writers (src/message.go:389-415, 477-504) *)

\* (msg *message) writeBody(body, encoding)
writeBody(m, body, encoding) ==
    CASE encoding = "quoted-printable" -> [m EXCEPT !.body = @ \o qpEncode(body)]
      [] encoding = "base64" -> [m EXCEPT !.body = @ \o base64Encode(body)]
      [] OTHER -> [m EXCEPT !.body = @ \o body]

\* msg.writers[w-1].CreatePart(header): the delimiter line of boundary w
\* (with a leading CRLF after a previous part), then the header.
CreatePart(m, w, header) ==
    [m EXCEPT !.body = @ \o << <<"delimiter", w, m.writers[w].lastpart>> >> \o header,
              !.writers[w].lastpart = TRUE]

\* if len(body) != 0 { msg.writeBody(body, encoding) }
writeBodyIfAny(m, body, encoding) ==
    IF Len(body) # 0 THEN writeBody(m, body, encoding) ELSE m

\* (msg *message) write(header, body, encoding)
write(m, header, body, encoding) ==
    writeBodyIfAny(IF m.parts = 0
                   THEN writeBody(m, header, "none")
                   ELSE CreatePart(m, m.parts, header),
                   body, encoding)

\* (msg *message) openMultipart(multipartType)
openMultipart(m, multipartType) ==
    LET m1 == [m EXCEPT !.writers = Append(@, [kind |-> multipartType, lastpart |-> FALSE,
                                               closed |-> FALSE])]
        header == << <<"multipart", multipartType, m.parts + 1>> >>
    IN  [(IF m.parts = 0
          THEN write(m1, header, <<>>, "quoted-printable")
          ELSE CreatePart(m1, m.parts, header)) EXCEPT !.parts = @ + 1]

\* closeMultipart without the test of msg.parts > 0: the counter goes down
\* even when no context is open.
closeMultipartNoGuard(m) ==
    IF m.parts > 0
    THEN [m EXCEPT !.body = @ \o << <<"close", m.parts>> >>,
                   !.writers[m.parts].lastpart = FALSE,
                   !.writers[m.parts].closed = TRUE,
                   !.parts = @ - 1]
    ELSE [m EXCEPT !.parts = @ - 1]

\* closeMultipart without msg.parts--: the context is terminated, not popped.
closeMultipartNoPop(m) ==
    IF m.parts > 0
    THEN [m EXCEPT !.body = @ \o << <<"close", m.parts>> >>,
                   !.writers[m.parts].lastpart = FALSE,
                   !.writers[m.parts].closed = TRUE]
    ELSE m

\* (msg *message) closeMultipart()
closeMultipart(m) ==
    IF m.parts > 0
    THEN [m EXCEPT !.body = @ \o << <<"close", m.parts>> >>,
                   !.writers[m.parts].lastpart = FALSE,
                   !.writers[m.parts].closed = TRUE,
                   !.parts = @ - 1]
    ELSE m

\* (msg *message) addBody(contentType, body)
addBodyRewritten(r, contentType) ==
    write(r.m, << <<"part", contentType, r.m.encoding>> >>, r.text, r.m.encoding)

addBody(m, contentType, body, t) == addBodyRewritten(replaceCIDs(m, body, t), contentType)

RECURSIVE addBodies(_, _, _)
addBodies(m, parts, t) ==
    IF parts = <<>> THEN m
    ELSE addBodies(addBody(m, Head(parts).contentType, Head(parts).body, t), Tail(parts), t)

openMultipartIf(has, m, multipartType) ==
    IF has THEN openMultipart(m, multipartType) ELSE m

closeMultipartIf(has, m) == IF has THEN closeMultipart(m) ELSE m

\* newMessage(email), at clock reading t
newMessage(e, t) ==
    LET m0 == [bodySend |-> FALSE, fileHeaderSend |-> FALSE, body |-> <<>>,
               writers |-> <<>>, encoderBuff |-> <<>>,
               encoder |-> [buf |-> <<>>, numLineChars |-> 0],
               attachmentIndex |-> 0, inlineIndex |-> 0,
               attachments |-> e.attachments, inlines |-> e.inlines,
               parts |-> 0, cids |-> NoCids, encoding |-> e.encoding]
        m1 == write(m0, TopHeaders, <<>>, e.encoding)
        m2 == openMultipartIf(hasMixedPart(e), m1, "mixed")
        m3 == openMultipartIf(hasRelatedPart(e), m2, "related")
        m4 == openMultipartIf(hasAlternativePart(e), m3, "alternative")
        m5 == writeBody(m4, CRLF, "none")
        m6 == addBodies(m5, e.parts, t)
    IN  closeMultipartIf(hasAlternativePart(e), m6)

----------------------------------------------------------------------------
(* The reader (src/message.go:556-638, 662-746) *)

Files(m, inline) == IF inline THEN m.inlines ELSE m.attachments

\* header.Set(...) of AddFileHeaders for file f, cid its generated ID
FileHeader(f, inline, cid) ==
    IF inline
    THEN << <<"file", "inline", f.filename, "base64", f.size, cid>> >>
    ELSE << <<"file", "attachment", f.filename, "base64", f.size, <<>> >> >>

\* the Content-ID of an inline file: g is what getCID returned
AddInlineHeaders(g, f) ==
    [m |-> write(g.m, FileHeader(f, TRUE, g.cid), <<>>, "quoted-printable"), err |-> "nil"]

\* (msg *message) AddFileHeaders(index, inline): [m, err]
AddFileHeaders(m, index, inline, t) ==
    IF ~inline /\ index >= Len(Files(m, inline))
    THEN [m |-> m, err |-> "index out of range"]
    ELSE IF index >= Len(Files(m, inline))
    THEN [m |-> m, err |-> "panic"]
    ELSE IF inline
    THEN AddInlineHeaders(getCID(m, m.inlines[index + 1].filename, t), m.inlines[index + 1])
    ELSE [m |-> write(m, FileHeader(m.attachments[index + 1], FALSE, <<>>), <<>>,
                      "quoted-printable"),
          err |-> "nil"]

SourcePos(r, index, inline) == IF inline THEN r.inl[index + 1] ELSE r.att[index + 1]

\* the files whose source has returned an error other than io.EOF since the
\* call of Read began, one <<inline, index>> for each such return
SourceFailed(failed, index, inline, x) ==
    IF x.err \in {"nil", "EOF"} THEN failed ELSE Append(failed, <<inline, index>>)

\* the sources after a Read of files[index].reader that returned x: how far
\* the source has been read, whether it has reported io.EOF, and whether it
\* failed
SourceMoved(r, index, inline, x) ==
    IF inline
    THEN [r EXCEPT !.inl[index + 1] = x.pos, !.inlEof[index + 1] = @ \/ x.err = "EOF",
                   !.failed = SourceFailed(@, index, inline, x)]
    ELSE [r EXCEPT !.att[index + 1] = x.pos, !.attEof[index + 1] = @ \/ x.err = "EOF",
                   !.failed = SourceFailed(@, index, inline, x)]

\* return files[index].reader.Read(p): x is what the source returned
ReadFileRaw(m, r, index, inline, x) ==
    [m |-> m, rd |-> SourceMoved(r, index, inline, x), n |-> x.n, err |-> x.err,
     data |-> x.data]

\* n, err = msg.encoderBuff.Read(p): b is what the buffer returned
ReadFileBuffered(m, r, e, b) ==
    [m |-> [m EXCEPT !.encoder = [buf |-> e.buf, numLineChars |-> e.numLineChars],
                     !.encoderBuff = b.rest],
     rd |-> r, n |-> b.n, err |-> b.err, data |-> b.data]

\* after msg.encoder.Write and Close: e is the encoder with its output
ReadFileEncoded(m, r, pLen, e) == ReadFileBuffered(m, r, e, BufferRead(e.writer, pLen))

\* msg.encoder.Write(binBuff); if nErr == io.EOF { msg.encoder.Close() }
EncodeChunk(e, x) ==
    IF x.err = "EOF" THEN EncoderClose(EncoderWrite(e, x.data)) ELSE EncoderWrite(e, x.data)

\* the base64 branch of ReadFile: x is what the source returned for binBuff
ReadFileBase64(m, r, pLen, index, inline, x) ==
    IF x.err \notin {"nil", "EOF"}
    THEN [m |-> m, rd |-> SourceMoved(r, index, inline, x), n |-> 0, err |-> x.err,
          data |-> <<>>]
    ELSE ReadFileEncoded(m, SourceMoved(r, index, inline, x), pLen,
                         EncodeChunk([buf |-> m.encoder.buf,
                                      numLineChars |-> m.encoder.numLineChars,
                                      writer |-> m.encoderBuff], x))

\* (msg *message) ReadFile(p, index, inline) with len(p) = pLen:
\* [m, rd, n, err, data]
ReadFile(m, r, pLen, index, inline) ==
    IF ~inline /\ index >= Len(Files(m, inline))
    THEN [m |-> m, rd |-> r, n |-> 0, err |-> "index out of range", data |-> <<>>]
    ELSE IF index >= Len(Files(m, inline))
    THEN [m |-> m, rd |-> r, n |-> 0, err |-> "panic", data |-> <<>>]
    ELSE IF m.encoding = "none"
    THEN ReadFileRaw(m, r, index, inline,
                     SourceRead(Files(m, inline)[index + 1],
                                SourcePos(r, index, inline), pLen))
    ELSE ReadFileBase64(m, r, pLen, index, inline,
                        SourceRead(Files(m, inline)[index + 1],
                                   SourcePos(r, index, inline), (pLen \div 100) * 70))

Exhausted(m) ==
    Len(m.attachments) = m.attachmentIndex /\ Len(m.inlines) = m.inlineIndex

FileIndex(m, inline) == IF inline THEN m.inlineIndex ELSE m.attachmentIndex

\* msg.attachmentIndex++ / msg.inlineIndex++, then either the next file or
\* the end of the list
NextFile(m, inline) ==
    IF Len(Files(m, inline)) > FileIndex(m, inline) + 1
    THEN [m EXCEPT !.attachmentIndex = IF inline THEN @ ELSE @ + 1,
                   !.inlineIndex = IF inline THEN @ + 1 ELSE @,
                   !.fileHeaderSend = FALSE]
    ELSE [closeMultipart([m EXCEPT !.attachmentIndex = IF inline THEN @ ELSE @ + 1,
                                   !.inlineIndex = IF inline THEN @ + 1 ELSE @])
            EXCEPT !.bodySend = FALSE]

\* The same with the io.EOF of a file taken for an error: the loop breaks and
\* the cursor stays where it is.
AfterReadFileStops(s, inline) ==
    IF s.offset = s.lenP \/ s.err # "nil"
    THEN [s |-> s, ctl |-> "break"]
    ELSE [s |-> s, ctl |-> "fall"]

\* what follows n, err = msg.ReadFile(...); offset = offset + n in a file
\* block: s already holds the new offset and err
AfterReadFile(s, inline) ==
    IF s.offset = s.lenP \/ s.err \notin {"nil", "EOF"}
    THEN [s |-> s, ctl |-> "break"]
    ELSE IF s.err = "EOF"
    THEN [s |-> [s EXCEPT !.m = NextFile(s.m, inline)], ctl |-> "continue"]
    ELSE [s |-> s, ctl |-> "fall"]

\* n, err = msg.ReadFile(p[offset:], index, inline): f is what it returned
FileBlockRead(s, inline, f) ==
    AfterReadFile([s EXCEPT !.m = f.m, !.rd = f.rd, !.offset = @ + f.n,
                            !.err = f.err, !.data = @ \o f.data], inline)

\* One of the two file blocks of the loop of Read (attachments: lines 689-712,
\* inlines: lines 713-737). s is [m, rd, offset, nBody, err, data, lenP, t];
\* the result [s, ctl] says how the iteration goes on: "continue", "break", or
\* "fall" out of the block.
FileBlock(s, inline) ==
    IF ~(Len(Files(s.m, inline)) > 0 /\ Len(Files(s.m, inline)) > FileIndex(s.m, inline))
    THEN [s |-> s, ctl |-> "fall"]
    ELSE IF ~s.m.fileHeaderSend
    THEN [s |-> [s EXCEPT !.m = [AddFileHeaders(s.m, FileIndex(s.m, inline), inline, s.t).m
                                   EXCEPT !.fileHeaderSend = TRUE, !.bodySend = FALSE]],
          ctl |-> "continue"]
    ELSE FileBlockRead(s, inline,
                       ReadFile(s.m, s.rd, s.lenP - s.offset, FileIndex(s.m, inline), inline))

\* The first step of an iteration with offset = nBody in place of
\* offset = offset + nBody.
DrainBodyResetsOffset(s) ==
    IF ~s.m.bodySend
    THEN LET b == BufferRead(s.m.body, s.lenP - s.offset)
         IN  [s EXCEPT !.m.body = b.rest, !.nBody = b.n, !.offset = b.n,
                       !.err = b.err, !.data = @ \o b.data]
    ELSE s

\* nBody, err = msg.body.Read(p[offset:]); offset = offset + nBody
DrainBody(s) ==
    IF ~s.m.bodySend
    THEN LET b == BufferRead(s.m.body, s.lenP - s.offset)
         IN  [s EXCEPT !.m.body = b.rest, !.nBody = b.n, !.offset = @ + b.n,
                       !.err = b.err, !.data = @ \o b.data]
    ELSE s

\* The end of an iteration that leaves the loop whether or not p is full.
LoopEndBreaks(s) == [s |-> s, ctl |-> "break"]

\* if offset == lenP { break } at the end of an iteration
LoopEnd(s) == [s |-> s, ctl |-> IF s.offset = s.lenP THEN "break" ELSE "continue"]

\* after the inline block: i is its result
AfterInlines(i) == IF i.ctl # "fall" THEN i ELSE LoopEnd(i.s)

\* after the attachment block: a is its result
AfterAttachments(a) ==
    IF a.ctl # "fall" THEN a ELSE AfterInlines(FileBlock(a.s, TRUE))

\* The rest of an iteration with a message that starts over once it is done:
\* both cursors go back to 0 at the terminal check.
AfterBodyRewinds(s) ==
    IF s.m.bodySend /\ Exhausted(s.m)
    THEN [s |-> [s EXCEPT !.m.attachmentIndex = 0, !.m.inlineIndex = 0], ctl |-> "break"]
    ELSE IF ~s.m.bodySend
    THEN LoopEnd(s)
    ELSE AfterAttachments(FileBlock(s, FALSE))

\* lines 684-741 of an iteration
AfterBody(s) ==
    IF s.m.bodySend /\ Exhausted(s.m)
    THEN [s |-> s, ctl |-> "break"]
    ELSE IF ~s.m.bodySend
    THEN LoopEnd(s)
    ELSE AfterAttachments(FileBlock(s, FALSE))

\* lines 675-682 of an iteration: bodySend is the flag as the iteration began,
\* s the state after the buffer was read
AfterDrain(bodySend, s) ==
    IF ~bodySend /\ (s.err \notin {"nil", "EOF"} \/ s.nBody = s.lenP)
    THEN [s |-> s, ctl |-> "break"]
    ELSE AfterBody(IF s.err = "EOF" THEN [s EXCEPT !.m.bodySend = TRUE] ELSE s)

\* One iteration of the for loop of Read; s is
\* [m, rd, offset, nBody, err, data, lenP, t], the result [s, ctl] with ctl
\* "break" or "continue".
ReadIteration(s) == AfterDrain(s.m.bodySend, DrainBody(s))

\* the for loop of Read
RECURSIVE ReadLoop(_)
ReadLoop(s) ==
    LET r == ReadIteration(s)
    IN  IF r.ctl = "break" THEN r.s ELSE ReadLoop(r.s)

\* Read without the check of len(p).
ReadNoLenCheck(m, r, lenP, t) ==
    ReadLoop([m |-> m, rd |-> r, offset |-> 0, nBody |-> 0, err |-> "nil",
              data |-> <<>>, lenP |-> lenP, t |-> t])

\* (msg *message) Read(p) with len(p) = lenP, at clock reading t: the message
\* and the sources afterwards, offset (the count returned), err, and data (the
\* bytes written to p).
Read(m, r, lenP, t) ==
    IF lenP = 0
    THEN [m |-> m, rd |-> r, offset |-> 0, nBody |-> 0,
          err |-> "buffer should be greater than 0", data |-> <<>>, lenP |-> lenP, t |-> t]
    ELSE ReadLoop([m |-> m, rd |-> r, offset |-> 0, nBody |-> 0, err |-> "nil",
                   data |-> <<>>, lenP |-> lenP, t |-> t])

----------------------------------------------------------------------------
(* Inputs *)

NameChar(k) == <<"name", k>>

InlineName(i) == <<NameChar(i)>>
AttachmentName(i) == <<NameChar(100 + i)>>

PlainText == <<Ch("x")>>
\* <img src="cid:NAME">
HtmlText(name) == <<Ch("<img "), SrcEq, CidColon>> \o name \o <<Quote, Ch(">")>>

FileData(kind, i, n) == [p \in 1..n |-> <<"data", kind, i, p>>]

FileSizes == {0, 2, MaxFileSize}

\* n files of z bytes each, their sources of the kind src
FileListOf(kind, n, z, src) ==
    [i \in 1..n |-> [filename |-> IF kind = "inline" THEN InlineName(i) ELSE AttachmentName(i),
                     size |-> z, data |-> FileData(kind, i, z), source |-> src]]

\* n files of z bytes each, in memory
FileList(kind, n, z) == FileListOf(kind, n, z, "plain")

\* n body parts, the last one an HTML part that refers to the first inline file
PartList(n) ==
    [i \in 1..n |-> IF i = n
                    THEN [contentType |-> "text/html", body |-> HtmlText(InlineName(1))]
                    ELSE [contentType |-> "text/plain", body |-> PlainText]]

Encodings == {"none", "quoted-printable", "base64"}

\* Every email of up to MaxParts body parts and up to MaxFiles attachments and
\* inline files, the files of one email all of the same size.
Emails ==
    {[encoding |-> enc, parts |-> PartList(np),
      attachments |-> FileList("attachment", na, z), inlines |-> FileList("inline", ni, z)] :
        enc \in Encodings, np \in 0..MaxParts, na \in 0..MaxFiles, ni \in 0..MaxFiles,
        z \in FileSizes}

\* len(p) of the callers' buffers
BufSizes == {0, SmallBuf, MidBuf, BigBuf}

\* Read is called in the second newMessage ran in, or later
ReadTimes == {1, MaxTime}

NoEmail == [encoding |-> "none", parts |-> <<>>, attachments |-> <<>>, inlines |-> <<>>]

NoCall == [lenP |-> 0 - 1, n |-> 0, err |-> "nil"]

NoDirectCall ==
    [op |-> "none", index |-> 0, inline |-> FALSE, err |-> "nil", before |-> <<>>, calls |-> 0]

NoRead(e) == [att |-> [i \in 1..Len(e.attachments) |-> 0],
              inl |-> [i \in 1..Len(e.inlines) |-> 0],
              attEof |-> [i \in 1..Len(e.attachments) |-> FALSE],
              inlEof |-> [i \in 1..Len(e.inlines) |-> FALSE],
              failed |-> <<>>]

----------------------------------------------------------------------------
(* The reader: newMessage(email), then any sequence of Read calls *)

ReaderIdle ==
    /\ email = NoEmail
    /\ rd = NoRead(NoEmail)
    /\ out = <<>>
    /\ ret = NoCall
    /\ nread = 0
    /\ eofBefore = FALSE
    /\ call = NoDirectCall

WrapIdle == lw = [writer |-> <<>>, numLineChars |-> 0] /\ wPos = 0 /\ wCalls = 0

CidIdle ==
    /\ cText = <<>>
    /\ cOrig = <<>>
    /\ cPrev = [text |-> <<>>, cids |-> NoCids]
    /\ cOp = [op |-> "none", name |-> <<>>, cid |-> <<>>]

Init ==
    /\ email \in Emails
    /\ msg = newMessage(email, 1)
    /\ rd = NoRead(email)
    /\ out = <<>>
    /\ ret = NoCall
    /\ nread = 0
    /\ eofBefore = FALSE
    /\ call = NoDirectCall
    /\ WrapIdle
    /\ CidIdle

\* n, err := msg.Read(p) with len(p) = lenP
Returned(r) ==
    /\ msg' = r.m
    /\ rd' = r.rd
    /\ out' = out \o r.data
    /\ ret' = [lenP |-> r.lenP, n |-> r.offset, err |-> r.err]
    /\ nread' = nread + r.offset
    /\ eofBefore' = (eofBefore \/ ret.err = "EOF")
    /\ UNCHANGED <<email, call, wrapVars, cidVars>>

\* n, err := msg.Read(p) with len(p) = lenP: no source has failed yet in
\* this call
DoRead(lenP, t) == Returned(Read(msg, [rd EXCEPT !.failed = <<>>], lenP, t))

Next == \E lenP \in BufSizes, t \in ReadTimes : DoRead(lenP, t)

Spec == Init /\ [][Next]_vars

----------------------------------------------------------------------------
(* The reader over file sources that are not in memory: sources that report *)
(* io.EOF together with their last bytes, and sources that fail             *)

SourceKinds == {"eager", "failing"}

\* Emails of one body part and at least one file, the sources of one list all
\* of one kind, and not every source in memory.
SourceEmails ==
    {e \in {[encoding |-> enc, parts |-> PartList(1),
             attachments |-> FileListOf("attachment", na, z, srcA),
             inlines |-> FileListOf("inline", ni, z, srcI)] :
               enc \in Encodings, na \in 0..MaxFiles, ni \in 0..MaxFiles, z \in FileSizes,
               srcA \in SourceKinds \cup {"plain"}, srcI \in SourceKinds \cup {"plain"}} :
        \E i \in 1..(Len(e.attachments) + Len(e.inlines)) :
            (e.attachments \o e.inlines)[i].source \in SourceKinds}

SourceInit ==
    /\ email \in SourceEmails
    /\ msg = newMessage(email, 1)
    /\ rd = NoRead(email)
    /\ out = <<>>
    /\ ret = NoCall
    /\ nread = 0
    /\ eofBefore = FALSE
    /\ call = NoDirectCall
    /\ WrapIdle
    /\ CidIdle

SpecSources == SourceInit /\ [][Next]_vars

----------------------------------------------------------------------------
(* The reader under a caller that goes on calling Read with buffers of at    *)
(* least one byte                                                            *)

\* emails whose sources are finite and do not fail: in memory, or reporting
\* io.EOF with their last bytes
LiveEmails ==
    Emails \cup {e \in SourceEmails :
                    \A i \in 1..(Len(e.attachments) + Len(e.inlines)) :
                        (e.attachments \o e.inlines)[i].source # "failing"}

LiveInit ==
    /\ email \in LiveEmails
    /\ msg = newMessage(email, 1)
    /\ rd = NoRead(email)
    /\ out = <<>>
    /\ ret = NoCall
    /\ nread = 0
    /\ eofBefore = FALSE
    /\ call = NoDirectCall
    /\ WrapIdle
    /\ CidIdle

ReadSome == \E lenP \in BufSizes \ {0}, t \in ReadTimes : DoRead(lenP, t)

\* The caller's loop (io.Copy, io.ReadAll) calls Read again after every return.
SpecLive == LiveInit /\ [][ReadSome]_vars /\ WF_vars(ReadSome)

----------------------------------------------------------------------------
(* AddFileHeaders and ReadFile called directly, with any index *)

\* emails with no file or MaxFiles files in each list
IndexEmails ==
    {[encoding |-> enc, parts |-> PartList(1),
      attachments |-> FileList("attachment", na, MaxFileSize),
      inlines |-> FileList("inline", ni, MaxFileSize)] :
        enc \in {"none", "base64"}, na \in {0, MaxFiles}, ni \in {0, MaxFiles}}

IndexInit ==
    /\ email \in IndexEmails
    /\ msg = newMessage(email, 1)
    /\ rd = NoRead(email)
    /\ out = <<>>
    /\ ret = NoCall
    /\ nread = 0
    /\ eofBefore = FALSE
    /\ call = NoDirectCall
    /\ WrapIdle
    /\ CidIdle

\* the call returned r (r.err is "panic" when it did not return: the index
\* expression files[index] panicked)
DirectCalled(op, index, inline, r) ==
    /\ call.calls < MaxCalls
    /\ msg' = r.m
    /\ call' = [op |-> op, index |-> index, inline |-> inline, err |-> r.err,
                before |-> msg, calls |-> call.calls + 1]
    /\ UNCHANGED <<email, rd, out, ret, nread, eofBefore, wrapVars, cidVars>>

\* err := msg.AddFileHeaders(index, inline)
CallAddFileHeaders(index, inline, t) ==
    DirectCalled("AddFileHeaders", index, inline, AddFileHeaders(msg, index, inline, t))

\* n, err := msg.ReadFile(p, index, inline) with len(p) = lenP, on sources not
\* yet read
CallReadFile(index, inline, lenP) ==
    DirectCalled("ReadFile", index, inline, ReadFile(msg, NoRead(email), lenP, index, inline))

IndexNext ==
    \/ \E index \in 0..(MaxFiles + 1), inline \in BOOLEAN, t \in ReadTimes :
          CallAddFileHeaders(index, inline, t)
    \/ \E index \in 0..(MaxFiles + 1), inline \in BOOLEAN :
          CallReadFile(index, inline, BigBuf)

SpecIndex == IndexInit /\ [][IndexNext]_vars

----------------------------------------------------------------------------
(* One base64LineWrap given an input in successive Write calls *)

WrapChar(i) == <<"char", i>>

\* characters a+1 .. b of the input
WrapInput(a, b) == [i \in 1..(b - a) |-> WrapChar(a + i)]

ChunkSizes ==
    {0, 1, 2, maxLineChars - 1, maxLineChars, maxLineChars + 1, 2 * maxLineChars,
     2 * maxLineChars + 3}

WrapInit ==
    /\ msg = newMessage(NoEmail, 1)
    /\ ReaderIdle
    /\ WrapIdle
    /\ CidIdle

\* e.Write(p) with the next k characters of the input
WrapWrite(k) ==
    /\ wPos + k <= MaxWrapInput
    /\ lw' = LineWrapWrite(lw, WrapInput(wPos, wPos + k))
    /\ wPos' = wPos + k
    /\ wCalls' = Min(wCalls + 1, 2)
    /\ UNCHANGED <<msg, readerVars, cidVars>>

WrapNext == \E k \in ChunkSizes : WrapWrite(k)

SpecWrap == WrapInit /\ [][WrapNext]_vars

----------------------------------------------------------------------------
(* The CID table of one message under getCID, replaceCIDs and the          *)
(* Content-ID header of AddFileHeaders                                     *)

CidEmail ==
    [encoding |-> "none", parts |-> <<>>, attachments |-> <<>>,
     inlines |-> FileList("inline", 2, 0)]

CidNames == {InlineName(1), InlineName(2), InlineName(1) \o InlineName(2)}

CidTexts ==
    { PlainText,
      HtmlText(InlineName(1)),
      \* two names, the second by href
      HtmlText(InlineName(1)) \o <<Ch("<a "), HrefEq, CidColon>> \o InlineName(2) \o <<Quote>>,
      \* one name twice, and once outside an attribute
      <<SrcEq, CidColon>> \o InlineName(1) \o <<Quote, SrcEq, CidColon>> \o InlineName(1)
          \o <<Quote, CidColon>> \o InlineName(1),
      \* a name that is a prefix of the next
      <<SrcEq, CidColon>> \o InlineName(1) \o <<Quote, SrcEq, CidColon>> \o InlineName(1)
          \o InlineName(2) \o <<Quote>> }

CidInit ==
    /\ msg = newMessage(CidEmail, 1)
    /\ email = CidEmail
    /\ rd = NoRead(CidEmail)
    /\ out = <<>>
    /\ ret = NoCall
    /\ nread = 0
    /\ eofBefore = FALSE
    /\ call = NoDirectCall
    /\ WrapIdle
    /\ CidIdle

Fits(m) == Cardinality(DOMAIN m.cids) <= MaxCids

\* cid := msg.getCID(name): g is what it returned
CidGot(name, op, g) ==
    /\ Fits(g.m)
    /\ msg' = [msg EXCEPT !.cids = g.m.cids]
    /\ cOp' = [op |-> op, name |-> name, cid |-> g.cid]
    /\ cPrev' = [text |-> cText, cids |-> msg.cids]
    /\ UNCHANGED <<cText, cOrig, readerVars, wrapVars>>

CidGet(name, t) == CidGot(name, "getCID", getCID(msg, name, t))

\* the Content-ID of the header that a wrote last
HeaderCID(a) == [m |-> a.m, cid |-> a.m.body[Len(a.m.body)][6]]

\* msg.AddFileHeaders(index, true): the Content-ID of the header it writes
CidHeader(index, t) ==
    CidGot(msg.inlines[index + 1].filename, "header",
           HeaderCID(AddFileHeaders(msg, index, TRUE, t)))

\* text = msg.replaceCIDs(text): r is what it returned
CidReplaced(op, text, r) ==
    /\ Fits(r.m)
    /\ msg' = r.m
    /\ cOrig' = text
    /\ cText' = r.text
    /\ cPrev' = [text |-> cText, cids |-> msg.cids]
    /\ cOp' = [op |-> op, name |-> <<>>, cid |-> <<>>]
    /\ UNCHANGED <<readerVars, wrapVars>>

\* msg.replaceCIDs on a new text
CidReplace(text, t) == CidReplaced("replace", text, replaceCIDs(msg, text, t))

\* msg.replaceCIDs again on the text it was last given
CidReplaceSame(t) ==
    /\ cOp.op # "none"
    /\ CidReplaced("same", cOrig, replaceCIDs(msg, cOrig, t))

\* msg.replaceCIDs on the text it last returned
CidReplaceOutput(t) ==
    /\ cOp.op \in {"replace", "same", "output"}
    /\ CidReplaced("output", cText, replaceCIDs(msg, cText, t))

CidNext ==
    \/ \E name \in CidNames, t \in ReadTimes : CidGet(name, t)
    \/ \E index \in 0..(Len(msg.inlines) - 1), t \in ReadTimes : CidHeader(index, t)
    \/ \E text \in CidTexts, t \in ReadTimes : CidReplace(text, t)
    \/ \E t \in ReadTimes : CidReplaceSame(t)
    \/ \E t \in ReadTimes : CidReplaceOutput(t)

SpecCID == CidInit /\ [][CidNext]_vars

----------------------------------------------------------------------------
(* Properties of the reader, checked under Spec *)

\* Every byte the message has produced so far: what Read has handed out and
\* what still waits in msg.body.
Produced == out \o msg.body

\* An encoder that encodes everything up front: after the header of a file,
\* its complete content, raw under EncodingNone and in base64 otherwise.
EagerContent(m, f) ==
    [m EXCEPT !.body = @ \o (IF m.encoding = "none" THEN f.data ELSE base64Encode(f.data))]

\* The files index+1.. of one list, each as header and content, and the
\* closing boundary after the last; ts[i] is the clock reading at file i.
RECURSIVE EagerFiles(_, _, _, _)
EagerFiles(m, index, inline, ts) ==
    IF index >= Len(Files(m, inline))
    THEN IF index > 0 THEN closeMultipart(m) ELSE m
    ELSE EagerFiles(EagerContent(AddFileHeaders(m, index, inline, ts[index + 1]).m,
                                 Files(m, inline)[index + 1]),
                    index + 1, inline, ts)

\* The whole stream of the eager encoder: the buffered prefix, the
\* attachments, the inline files.
EagerStream(e, ts) ==
    EagerFiles(EagerFiles(newMessage(e, 1), 0, FALSE, ts), 0, TRUE, ts).body

\* C1: whatever the buffer sizes, the bytes returned by the Read calls up to
\* end-of-data are the stream of the eager encoder: the buffered prefix, then
\* for each file its header and its complete encoded content, with the closing
\* boundaries.
C1_EagerEquivalence ==
    ret.err = "EOF" =>
        \E ts \in [1..MaxFiles -> ReadTimes] : out = EagerStream(email, ts)

\* C2: once a Read has returned io.EOF, every later Read with a non-empty
\* buffer returns io.EOF and zero bytes.
C2_ExhaustionLaw ==
    (eofBefore /\ ret.lenP > 0) => (ret.err = "EOF" /\ ret.n = 0)

\* The terminal state of the reader: buffer drained, both cursors at the
\* lengths of their lists.
Terminal == msg.body = <<>> /\ Exhausted(msg)

C4_NestingShape ==
    (hasMixedPart(email) /\ hasRelatedPart(email)) =>
        \A i \in DOMAIN Produced :
            Produced[i][1] = "file" =>
                /\ i > 1
                /\ Produced[i - 1][1] = "delimiter"
                /\ msg.writers[Produced[i - 1][2]].kind =
                       IF Produced[i][2] = "inline" THEN "related" ELSE "mixed"

\* the names that text refers to as cid:<name> in a src or href attribute
RECURSIVE CidNamesIn(_)
CidNamesIn(matches) ==
    IF matches = <<>> THEN {} ELSE {Head(matches)} \cup CidNamesIn(Tail(matches))

\* the inline files of e that a body part of e refers to
Referenced(e) ==
    {k \in DOMAIN e.inlines :
        \E p \in DOMAIN e.parts :
            e.inlines[k].filename \in CidNamesIn(FindAllCids(e.parts[p].body, 1))}

\* C5: when the stream has ended, it holds for every inline file that a body
\* part refers to a header with a Content-ID that is the ID put into the body,
\* with or without attachments.
C5_ContentIDMatchesBody ==
    ret.err = "EOF" =>
        \A k \in Referenced(email) :
            /\ email.inlines[k].filename \in DOMAIN msg.cids
            /\ \E i \in DOMAIN out :
                /\ out[i][1] = "file"
                /\ out[i][2] = "inline"
                /\ out[i][3] = email.inlines[k].filename
                /\ out[i][6] = msg.cids[email.inlines[k].filename]

UsageError == "buffer should be greater than 0"

\* C6: a Read with a buffer of length 0 returns the usage error and 0 bytes
\* and changes nothing: the message (cursors, flags, buffer, contexts), the
\* files' sources and the bytes handed out are as before the call.
C6_ZeroLengthRead ==
    [][ret'.lenP = 0 =>
          /\ ret'.n = 0
          /\ ret'.err = UsageError
          /\ msg' = msg
          /\ rd' = rd
          /\ out' = out]_vars

\* a zero-length Read in the middle of a stream
C6_Witness ==
    /\ ret.lenP = 0
    /\ ret.err = UsageError
    /\ out # <<>>
    /\ ~Exhausted(msg)
    /\ msg.fileHeaderSend

NoFiles(e) == Len(e.attachments) = 0 /\ Len(e.inlines) = 0

\* C10: for a message without files, the byte counts returned by Read add up
\* to the length of the buffer newMessage built, at the call that returns
\* io.EOF and after it; before it, they and what is left in the buffer do.
C10_RoundTripSize ==
    NoFiles(email) =>
        /\ nread + Len(msg.body) = Len(newMessage(email, 1).body)
        /\ (ret.err = "EOF" \/ eofBefore) => nread = Len(newMessage(email, 1).body)

\* a message of two body parts read to io.EOF one byte at a time
C10_Witness ==
    /\ NoFiles(email)
    /\ Len(email.parts) = 2
    /\ ret.err = "EOF"
    /\ ret.lenP = SmallBuf
    /\ nread > SmallBuf

----------------------------------------------------------------------------
(* Properties of the CID table, checked under SpecCID *)

\* the names text refers to, as a set
Matches(text) == CidNamesIn(FindAllCids(text, 1))

\* C7: an entry of the CID table is never changed or removed; getCID, called
\* directly or for the Content-ID of an inline file, returns the entry of the
\* name, the one it had before if it had one; every name replaceCIDs met has
\* an entry; different names have different IDs.
C7_WriteOnce ==
    /\ [][\A k \in DOMAIN msg.cids : k \in DOMAIN msg'.cids /\ msg'.cids[k] = msg.cids[k]]_vars
    /\ [](cOp.op \in {"getCID", "header"} =>
            /\ cOp.name \in DOMAIN msg.cids
            /\ msg.cids[cOp.name] = cOp.cid
            /\ cOp.name \in DOMAIN cPrev.cids => cOp.cid = cPrev.cids[cOp.name])
    /\ [](cOp.op \in {"replace", "same", "output"} => Matches(cOrig) \subseteq DOMAIN msg.cids)
    /\ [](\A a, b \in DOMAIN msg.cids : a # b => msg.cids[a] # msg.cids[b])

\* AddFileHeaders asked for the ID of a name that already had one, in a table
\* of several names
C7_Witness ==
    /\ cOp.op = "header"
    /\ cOp.name \in DOMAIN cPrev.cids
    /\ Cardinality(DOMAIN msg.cids) >= 2
    /\ cOp.cid = cPrev.cids[cOp.name]

----------------------------------------------------------------------------
(* Properties of base64LineWrap, checked under SpecWrap *)

\* The first n characters of the input with a CRLF after each run of
\* maxLineChars characters that more input follows.
ExpectedWrap(n) ==
    [i \in 1..(IF n = 0 THEN 0 ELSE n + 2 * ((n - 1) \div maxLineChars)) |->
        IF (i - 1) % (maxLineChars + 2) = maxLineChars THEN <<"CR">>
        ELSE IF (i - 1) % (maxLineChars + 2) = maxLineChars + 1 THEN <<"LF">>
        ELSE WrapChar(((i - 1) \div (maxLineChars + 2)) * maxLineChars
                      + ((i - 1) % (maxLineChars + 2)) + 1)]

\* C9: however the input is split into Write calls, the output so far is the
\* output of one Write of the input so far: the input with a CRLF after each
\* full run of 400 characters, no line longer than 400 characters.
C9_WrapContinuity ==
    /\ lw = LineWrapWrite([writer |-> <<>>, numLineChars |-> 0], WrapInput(0, wPos))
    /\ lw.writer = ExpectedWrap(wPos)
    /\ lw.numLineChars <= maxLineChars

\* more than two lines written in several calls, the last line not full
C9_Witness ==
    /\ wCalls = 2
    /\ wPos > 2 * maxLineChars
    /\ lw.numLineChars \notin {0, maxLineChars}

----------------------------------------------------------------------------
(* Cursors, errors and order of the reader, under Spec *)

\* C11: each cursor is between 0 and the length of its list, never decreases
\* from one Read to the next, and stays at the length of its list once there.
C11_CursorBounds ==
    /\ [](/\ 0 <= msg.attachmentIndex /\ msg.attachmentIndex <= Len(msg.attachments)
          /\ 0 <= msg.inlineIndex /\ msg.inlineIndex <= Len(msg.inlines))
    /\ [][/\ msg'.attachmentIndex >= msg.attachmentIndex
          /\ msg'.inlineIndex >= msg.inlineIndex
          /\ msg.attachmentIndex = Len(msg.attachments) =>
                 msg'.attachmentIndex = Len(msg'.attachments)
          /\ msg.inlineIndex = Len(msg.inlines) => msg'.inlineIndex = Len(msg'.inlines)]_vars

\* both lists of two files are exhausted, and Read was called again after that
C11_Witness ==
    /\ Len(msg.attachments) = 2 /\ msg.attachmentIndex = 2
    /\ Len(msg.inlines) = 2 /\ msg.inlineIndex = 2
    /\ eofBefore
    /\ ret.lenP > 0

\* C12: a Read that returns io.EOF leaves nothing behind: the buffer is
\* drained and both cursors are at the lengths of their lists; and no Read
\* after it returns a byte.
C12_EofOnlyAtEnd ==
    /\ ret.err = "EOF" => Terminal
    /\ eofBefore => ret.n = 0

\* the index of the last direct call is not one of the selected list
OutOfRange ==
    /\ call.op \in {"AddFileHeaders", "ReadFile"}
    /\ call.index >= Len(IF call.inline THEN call.before.inlines ELSE call.before.attachments)

\* C13: AddFileHeaders and ReadFile with an index that is not in the selected
\* list return an error and leave the message as it was, for attachments and
\* for inline files.
C13_IndexOutOfRange ==
    OutOfRange => (call.err = "index out of range" /\ msg = call.before)

----------------------------------------------------------------------------
(* Errors of file sources, under SpecSources *)

\* A source failed during the last Read: the call returned that error, asked
\* no source again after it, and the failed file is still the current one of
\* its list.
SourceErrorReturned ==
    rd.failed # <<>> =>
        /\ ret.err = ReadError
        /\ Len(rd.failed) = 1
        /\ FileIndex(msg, rd.failed[1][1]) = rd.failed[1][2]

\* files or buffered bytes remain
Remaining == ~Exhausted(msg) \/ msg.body # <<>> \/ msg.encoderBuff # <<>>

\* C14: an error of a file's source other than io.EOF is what the Read call in
\* progress returns, with the cursor still on that file and the source not
\* asked again in that call; and Read never returns io.EOF while files or
\* buffered bytes remain.
C14_SourceErrors ==
    /\ SourceErrorReturned
    /\ ret.err = "EOF" => ~Remaining

----------------------------------------------------------------------------
(* Headers, order and content of the files, under Spec *)

\* how many times the part header of file index of a list has been written
\* to the buffer
FileHeaders(index, inline) ==
    Cardinality({k \in DOMAIN Produced :
                    /\ Produced[k][1] = "file"
                    /\ Produced[k][3] = Files(msg, inline)[index + 1].filename})

\* the source of file index of a list has been read from: bytes were taken, or
\* it reported io.EOF
SourceWasRead(index, inline) ==
    IF inline
    THEN rd.inl[index + 1] > 0 \/ rd.inlEof[index + 1]
    ELSE rd.att[index + 1] > 0 \/ rd.attEof[index + 1]

\* the reader is at the start of file index of a list: it is the file the
\* loop of Read turns to next, and nothing of it has been written or read
StartsOn(index, inline) ==
    /\ FileIndex(msg, inline) = index
    /\ inline => msg.attachmentIndex = Len(msg.attachments)
    /\ FileHeaders(index, inline) = 0
    /\ ~SourceWasRead(index, inline)

\* C15: the part header of every file, attachment or inline, is written to the
\* buffer once and no more, before anything is read from the file's source and
\* before the cursor passes the file; fileHeaderSend is false whenever the
\* reader starts on a new file.
C15_HeaderOncePerFile ==
    \A inline \in BOOLEAN : \A index \in 0..(Len(Files(msg, inline)) - 1) :
        /\ FileHeaders(index, inline) <= 1
        /\ (SourceWasRead(index, inline) \/ FileIndex(msg, inline) > index)
              => FileHeaders(index, inline) = 1
        /\ StartsOn(index, inline) => ~msg.fileHeaderSend

\* bytes taken so far from the source of file i (from 1) of a list
BytesRead(i, inline) == IF inline THEN rd.inl[i] ELSE rd.att[i]

\* the source of file i (from 1) of a list has reported io.EOF
ReportedEof(i, inline) == IF inline THEN rd.inlEof[i] ELSE rd.attEof[i]

\* C16: the sources are read one after the other: no byte is taken from the
\* source of a file before the source of the file before it in its list has
\* reported io.EOF, and no byte is taken from the source of an inline file
\* while attachmentIndex < len(attachments).
C16_SequentialSources ==
    /\ \A inline \in BOOLEAN : \A i \in 2..Len(Files(msg, inline)) :
          BytesRead(i, inline) > 0 => ReportedEof(i - 1, inline)
    /\ \A i \in 1..Len(msg.inlines) :
          BytesRead(i, TRUE) > 0 => msg.attachmentIndex = Len(msg.attachments)

\* the bytes of files that the caller has received, raw or inside a base64
\* quantum
Delivered ==
    {out[k] : k \in {j \in DOMAIN out : out[j][1] = "data"}}
        \cup UNION {{out[k][3][n] : n \in DOMAIN out[k][3]} :
                       k \in {j \in DOMAIN out : out[j][1] = "b64"}}

\* C17: a cursor is past a file only if the file's source has reported io.EOF
\* and every byte of the file has been delivered to the caller; an empty
\* encoderBuff alone does not advance the cursor.
C17_CursorAdvancesOnEof ==
    \A inline \in BOOLEAN : \A i \in 1..FileIndex(msg, inline) :
        /\ ReportedEof(i, inline)
        /\ \A n \in DOMAIN Files(msg, inline)[i].data :
              Files(msg, inline)[i].data[n] \in Delivered

\* the transform ReadFile applies to the bytes of a file
FileTransform == IF msg.encoding = "none" THEN "none" ELSE "base64"

\* the bytes of files in the stream are in the form FileTransform names: raw
\* bytes under "none", base64 quanta otherwise
TransformApplied ==
    \A k \in DOMAIN out :
        /\ out[k][1] = "data" => FileTransform = "none"
        /\ (out[k][1] = "b64" /\ \E n \in DOMAIN out[k][3] : out[k][3][n][1] = "data")
              => FileTransform = "base64"

\* C18: the Content-Transfer-Encoding of every part header written by
\* AddFileHeaders names the transform ReadFile applies to the file's bytes:
\* base64 when the encoding of the message is not None, and not base64 when
\* the bytes are streamed raw.
C18_DeclaredEncoding ==
    /\ TransformApplied
    /\ \A k \in DOMAIN Produced :
          Produced[k][1] = "file" => Produced[k][4] = FileTransform

----------------------------------------------------------------------------
(* Termination of the reader, under SpecLive *)

\* iterations of the for loop of Read that one call makes at most: four for
\* the buffered prefix and four for each file (header, content, end of data,
\* boundary)
MaxIterations == 4 * (2 * MaxFiles + 1)

\* The number of the iteration at which the loop of Read breaks, r being the
\* outcome of iteration k; MaxIterations + 1 if it has not by then.
RECURSIVE IterationsFrom(_, _)
IterationsFrom(r, k) ==
    IF r.ctl = "break" THEN k
    ELSE IF k >= MaxIterations THEN MaxIterations + 1
    ELSE IterationsFrom(ReadIteration(r.s), k + 1)

\* iterations of the loop in Read(p) with len(p) = lenP > 0, called now
Iterations(lenP, t) ==
    IterationsFrom(ReadIteration([m |-> msg, rd |-> [rd EXCEPT !.failed = <<>>], offset |-> 0,
                                  nBody |-> 0, err |-> "nil", data |-> <<>>,
                                  lenP |-> lenP, t |-> t]), 1)

\* the reader has returned its io.EOF: terminal state, bodySend set
Done == Terminal /\ msg.bodySend

RECURSIVE Sum(_, _)
Sum(f, n) == IF n = 0 THEN 0 ELSE f[n] + Sum(f, n - 1)

\* bytes not yet taken from the sources of the files
Unread ==
    Sum([i \in 1..Len(msg.attachments) |-> Len(msg.attachments[i].data) - rd.att[i]],
        Len(msg.attachments))
    + Sum([i \in 1..Len(msg.inlines) |-> Len(msg.inlines[i].data) - rd.inl[i]],
          Len(msg.inlines))

\* files the cursors have not passed
FilesLeft ==
    (Len(msg.attachments) - msg.attachmentIndex) + (Len(msg.inlines) - msg.inlineIndex)

\* What is left for the reader to do, as a natural number: each term weighs
\* more than what its decrease can add to the terms after it (a file passed
\* adds a boundary and allows a header; a header adds its bytes to the buffer;
\* a byte of a source becomes at most four base64 characters and a line end).
Rank ==
    30 * FilesLeft
    + (IF msg.fileHeaderSend THEN 0 ELSE 10)
    + 6 * Unread
    + 5 * Len(msg.encoder.buf)
    + Len(msg.encoderBuff) + Len(msg.body)
    + (IF msg.bodySend THEN 0 ELSE 1)

\* C19: with in-memory sources and buffers of at least one byte, every Read
\* returns after a bounded number of loop iterations; every Read before the
\* end brings the reader nearer to it (Rank, a natural number, decreases), so
\* a caller that goes on reading reaches the terminal state after finitely
\* many calls; and the call that reaches it returns io.EOF.
C19_Termination ==
    /\ [](\A lenP \in BufSizes \ {0}, t \in ReadTimes : Iterations(lenP, t) <= MaxIterations)
    /\ [](Rank >= 0)
    /\ [][/\ ~Done => Rank' < Rank
          /\ (~Done /\ Done') => (ret'.err = "EOF" /\ Terminal')]_vars

\* the end was reached by single-byte reads of a message with MaxFiles files
\* in each list
C19_Witness ==
    /\ Terminal /\ ret.err = "EOF" /\ ret.lenP = SmallBuf
    /\ Len(msg.attachments) = MaxFiles /\ Len(msg.inlines) = MaxFiles
    /\ Len(email.parts) > 0 /\ email.attachments[1].size = MaxFileSize

----------------------------------------------------------------------------
(* The multipart contexts, under Spec *)

\* positions of the closing boundaries in the stream
Closes == {k \in DOMAIN Produced : Produced[k][1] = "close"}

\* C20: the number of open multipart contexts is 0, 1, 2 or 3; the contexts
\* are closed in the reverse of the order they were opened in (the open ones
\* are the first msg.parts of msg.writers, and of two closing boundaries in
\* the stream the first belongs to the context opened later); closeMultipart
\* with no context open changes nothing.
C20_ContextStack ==
    /\ msg.parts \in 0..3
    /\ Len(msg.writers) <= 3
    /\ \A w \in DOMAIN msg.writers : msg.writers[w].closed <=> w > msg.parts
    /\ \A j, k \in Closes : j < k => Produced[j][2] > Produced[k][2]
    /\ msg.parts = 0 => closeMultipart(msg) = msg

\* three contexts were opened and all are closed, their boundaries in the
\* stream
C20_Witness ==
    /\ Len(msg.writers) = 3 /\ msg.parts = 0
    /\ Cardinality(Closes) = 3
    /\ ret.lenP > 0

----------------------------------------------------------------------------
(* Short reads, under Spec *)

\* the last Read returned fewer bytes than its buffer holds, with a nil error
ShortRead == ret.lenP > 0 /\ ret.n < ret.lenP /\ ret.err = "nil"

\* C21: a Read that returns neither an error nor io.EOF has filled p: it
\* returns fewer than len(p) bytes with a nil error only if the reader was in
\* its terminal state, io.EOF already returned, when it was called.
C21_FullBufferOrEnd == [][ShortRead' => Done]_vars

\* a Read returned a full buffer of MidBuf bytes, bytes of a file among them,
\* with a nil error
C21_Witness ==
    /\ ret.err = "nil" /\ ret.lenP = MidBuf /\ ret.n = MidBuf
    /\ Len(msg.attachments) > 0 /\ rd.att[1] > 0
    /\ ~Terminal

====
